---- MODULE Spec2Model ----
(***************************************************************************)
(* archupd: the orchestrator (main), the background feed poller            *)
(* (readNews), the state store (readState / writeState), the log tail      *)
(* monitor (newLogMonitor / lines / catchUp) and the superfluous-package   *)
(* remover (removeSuperfluousPackages), as a state machine.                *)
(*                                                                         *)
(* Abstractions.  Timestamps are instants 0..MaxTime, 0 being Go's zero    *)
(* time.Time.  A feed item is represented by its published-at instant; a   *)
(* news line for an item carries that instant (the real line also carries  *)
(* title and link, which identify the item).  The log file is a sequence   *)
(* of symbols: "\n", "x" (any other byte) and "M" (one occurrence of the   *)
(* marker " [ALPM] ").  One run of the program is one poll; NewRun starts  *)
(* the program again on the state file the previous run left behind.      *)
(***************************************************************************)
EXTENDS Integers, Sequences, FiniteSets, TLC

\* ------------------------------------------------------------------ bounds
MaxTime == 2
MaxItems == 2
LongFeedLen == 10
MaxRuns == 3
MaxExitCode == 2
MaxLogLen == 4

\* make(chan string, 10)
ChanCap == 10

Times == 0..MaxTime
Validators == {"v1", "v2"}

\* ------------------------------------------------------------------ helpers
SeqsUpTo(S, n) == UNION {[1..k -> S] : k \in 0..n}

LastTwo(s) == IF Len(s) > 2 THEN SubSeq(s, Len(s) - 1, Len(s)) ELSE s

\* ------------------------------------------------------------------ state store
\* type State struct { LastModified string; LatestItemTime time.Time }
ZeroState == [LastModified |-> "", LatestItemTime |-> 0]

\* What the state file can hold: no file, a file that cannot be opened, a
\* file that is not JSON, the JSON encoding of a State, or (BadFieldFile)
\* JSON that decodes only in part.
AbsentFile == [kind |-> "absent", LastModified |-> "", LatestItemTime |-> 0]
UnreadableFile == [kind |-> "unreadable", LastModified |-> "", LatestItemTime |-> 0]
GarbageFile == [kind |-> "garbage", LastModified |-> "", LatestItemTime |-> 0]
JsonFile(st) ==
    [kind |-> "json", LastModified |-> st.LastModified,
     LatestItemTime |-> st.LatestItemTime]

\* A file whose JSON stops decoding part-way (a value of the wrong type, a
\* time that does not parse, a truncated object): Decode returns an error
\* after it has stored the fields it could, here those of st.
BadFieldFile(st) ==
    [kind |-> "badfield", LastModified |-> st.LastModified,
     LatestItemTime |-> st.LatestItemTime]

\* readState: an open error returns State{}; Decode fills what it can of a
\* zero State, and its error is not looked at.
readState(file) ==
    IF file.kind \in {"json", "badfield"}
    THEN [LastModified |-> file.LastModified, LatestItemTime |-> file.LatestItemTime]
    ELSE ZeroState

\* (mutant) every error of os.Open is printed, fs.ErrNotExist too.
readStatePrints_EveryOpenError(file) ==
    IF file.kind \in {"unreadable", "absent"} THEN <<"open error">> ELSE <<>>

\* What readState prints: the error of os.Open, unless it is fs.ErrNotExist.
readStatePrints(file) ==
    IF file.kind = "unreadable" THEN <<"open error">> ELSE <<>>

\* writeState: MkdirAll or Create may fail (created = FALSE), then the file
\* is left as it was; otherwise the file holds the encoded State.
writeState(file, st, created) ==
    IF created THEN JsonFile(st) ELSE file

\* ------------------------------------------------------------------ feed
\* (mutant) a comparison that also holds of equal instants.
After_OrEqual(a, b) == a >= b

\* time.Time.After
After(a, b) == a > b

RECURSIVE InsertDesc(_, _)
InsertDesc(x, s) ==
    IF s = <<>> THEN <<x>>
    ELSE IF After(x, Head(s)) THEN <<x>> \o s
    ELSE <<Head(s)>> \o InsertDesc(x, Tail(s))

\* sort.Slice(items, func(i, j) bool { return items[i].Time.After(items[j].Time) })
RECURSIVE SortDesc(_)
SortDesc(s) ==
    IF s = <<>> THEN <<>> ELSE InsertDesc(Head(s), SortDesc(Tail(s)))

Feeds == SeqsUpTo(Times, MaxItems)
\* A feed of LongFeedLen items, all published at MaxTime.
LongFeed == [i \in 1..LongFeedLen |-> MaxTime]

\* The lines readNews sends.
Line(k, t) == [k |-> k, t |-> t]
NoLine == Line("none", 0)
SendErrLine == Line("failed to send request", 0)
NoNewsLine == Line("No Arch Linux news.", 0)
StatusLine == Line("unexpected HTTP status", 0)
DecodeErrLine == Line("failed to decode feed", 0)
EmptyFeedLine == Line("No Arch Linux news (empty feed).", 0)
HeaderLine == Line("Arch Linux news:", 0)
ItemLine(t) == Line("item", t)

\* What http.DefaultClient.Do and the XML decoder can produce.
\* lastMod is resp.Header.Values("Last-Modified"): <<>> is nil.
Resp(kind, lastMod, ok, its) ==
    [kind |-> kind, lastMod |-> lastMod, ok |-> ok, items |-> its]
LastModValues == {<<>>} \cup {<<v>> : v \in Validators}
NoBody ==
    {Resp("neterr", <<>>, FALSE, <<>>), Resp("304", <<>>, FALSE, <<>>),
     Resp("other", <<>>, FALSE, <<>>)}
\* Every response over the feeds of at most MaxItems items.
Responses ==
    NoBody
    \cup {Resp("200", lm, FALSE, <<>>) : lm \in LastModValues}
    \cup {Resp("200", lm, TRUE, f) : lm \in LastModValues, f \in Feeds}
\* One response of each kind, and the long feed.
RunResponses ==
    NoBody
    \cup {Resp("200", <<"v2">>, FALSE, <<>>)}
    \cup {Resp("200", lm, TRUE, f) :
            lm \in {<<>>, <<"v2">>}, f \in {<<>>, <<1>>, <<1, MaxTime>>, LongFeed}}

\* ------------------------------------------------------------------ log tail monitor
LogBytes == {"x", "M", "\n", "\r"}

\* var PACMAN_LOG_ALPM_MARKER = []byte(" [ALPM] ")
PACMAN_LOG_ALPM_MARKER == <<"M">>

\* (mutant) the Seek to the end of the file is left out.
newLogMonitor_NoSeek(file) == [off |-> 0]

\* newLogMonitor: os.Open, then Seek(0, SEEK_END): the handle's read
\* position is the size the file has now.
newLogMonitor(file) == [off |-> Len(file)]

\* Reading the handle to EOF: the bytes of the file from the read position.
ReadToEOF(m, file) == SubSeq(file, m.off + 1, Len(file))

\* logMonitor.catchUp: io.ReadAll(m)
catchUp(m, file) == ReadToEOF(m, file)

\* bufio.MaxScanTokenSize, the buffer limit of bufio.NewScanner
MaxScanTokenSize == 65536

\* bufio.ScanLines' dropCR
dropCR(line) ==
    IF Len(line) > 0 /\ line[Len(line)] = "\r"
    THEN SubSeq(line, 1, Len(line) - 1) ELSE line

\* The position of the first "\n" of data, 0 when there is none.
RECURSIVE IndexNL(_, _)
IndexNL(data, i) ==
    IF i > Len(data) THEN 0
    ELSE IF data[i] = "\n" THEN i ELSE IndexNL(data, i + 1)

\* bufio.Scanner with ScanLines over data: each line without its "\n" (and
\* without a "\r" before it); a final line without "\n" is a line too.
\* A line that does not fit the Scanner's buffer ends the scan (ErrTooLong,
\* which main does not look at).
RECURSIVE ScanLines(_)
ScanLines(data) ==
    IF data = <<>> THEN <<>>
    ELSE LET i == IndexNL(data, 1) IN
         IF i = 0
         THEN IF Len(data) >= MaxScanTokenSize THEN <<>> ELSE <<dropCR(data)>>
         ELSE IF i > MaxScanTokenSize THEN <<>>
         ELSE <<dropCR(SubSeq(data, 1, i - 1))>>
              \o ScanLines(SubSeq(data, i + 1, Len(data)))

\* logMonitor.lines: a Scanner over the handle.
lines(m, file) == ScanLines(ReadToEOF(m, file))

\* bytes.Contains(line, sep)
Contains(line, sep) ==
    \E i \in 0..(Len(line) - Len(sep)) :
        SubSeq(line, i + 1, i + Len(sep)) = sep

\* ------------------------------------------------------------------ changelogs
\* A line of `pacman -Qc` output: a header "Changelog for <name>:" (hdr,
\* with the name the regexp captures) or any other line.
HdrLine(p) == [hdr |-> TRUE, txt |-> p]
TxtLine(l) == [hdr |-> FALSE, txt |-> l]

\* result[currPkg] = currLog.String()
MapPut(m, k, v) == [x \in (DOMAIN m) \cup {k} |-> IF x = k THEN v ELSE m[x]]
EmptyMap == [x \in {} |-> <<>>]

\* (mutant) the scan loop without currLog.Reset().
RECURSIVE ScanChangelogs_NoReset(_, _, _, _)
ScanChangelogs_NoReset(out, result, currPkg, currLog) ==
    IF out = <<>>
    THEN IF currPkg # "" THEN MapPut(result, currPkg, currLog) ELSE result
    ELSE LET line == Head(out) IN
         IF line.hdr
         THEN ScanChangelogs_NoReset(Tail(out),
                  IF currPkg # "" THEN MapPut(result, currPkg, currLog) ELSE result,
                  line.txt, currLog)
         ELSE ScanChangelogs_NoReset(Tail(out), result, currPkg,
                  Append(currLog, line.txt))

\* getChangelogs' scan loop; a changelog text is the sequence of its lines
\* (each written with its '\n').
RECURSIVE ScanChangelogs(_, _, _, _)
ScanChangelogs(out, result, currPkg, currLog) ==
    IF out = <<>>
    THEN IF currPkg # "" THEN MapPut(result, currPkg, currLog) ELSE result
    ELSE LET line == Head(out) IN
         IF line.hdr
         THEN ScanChangelogs(Tail(out),
                  IF currPkg # "" THEN MapPut(result, currPkg, currLog) ELSE result,
                  line.txt, <<>>)
         ELSE ScanChangelogs(Tail(out), result, currPkg, Append(currLog, line.txt))

getChangelogs(out) == ScanChangelogs(out, EmptyMap, "", <<>>)

\* (mutant) the lookup in changelogsPre without its ok: a missing key reads
\* as the empty text.
Differs_ZeroValue(pre, post, pkg) ==
    (IF pkg \in DOMAIN pre THEN pre[pkg] ELSE <<>>) # post[pkg]

\* if logPre, ok := changelogsPre[pkg]; ok && logPre != logPost
Differs(pre, post, pkg) == pkg \in DOMAIN pre /\ pre[pkg] # post[pkg]

\* for pkg, logPost := range changelogsPost { ... } over the keys left, in
\* the order the map yields them; acc is what was rendered so far and the
\* loop's foundAny.
RECURSIVE RangeChangelogs(_, _, _, _)
RangeChangelogs(keys, pre, post, acc) ==
    IF keys = {} THEN acc
    ELSE LET pkg == CHOOSE k \in keys : TRUE IN
         RangeChangelogs(keys \ {pkg}, pre, post,
             IF Differs(pre, post, pkg)
             THEN [diffs |-> acc.diffs \cup {pkg}, foundAny |-> TRUE]
             ELSE acc)

\* showChangelogDiff: the packages a diff is rendered for, and whether
\* "No updated changelogs." is printed.
showChangelogDiff(pre, post) ==
    LET r == RangeChangelogs(DOMAIN post, pre, post,
                             [diffs |-> {}, foundAny |-> FALSE])
    IN [diffs |-> r.diffs, noUpdated |-> ~r.foundAny]

\* The `pacman -Qc` outputs a run draws from.
QcOutputs ==
    {<<HdrLine("foo"), TxtLine("l1")>>,
     <<HdrLine("foo"), TxtLine("l2"), HdrLine("bar")>>}

\* Every `pacman -Qc` output of at most MaxQcLen lines over two package
\* names and two texts.
MaxQcLen == 3
PkgNames == {"foo", "bar"}
QcLines == {HdrLine(p) : p \in PkgNames} \cup {TxtLine(l) : l \in {"l1", "l2"}}
AllQcOutputs == SeqsUpTo(QcLines, MaxQcLen)

\* ------------------------------------------------------------------ orphans
OutBytes == {"p", "\n"}
MaxOutLen == 2
QqtdOutputs == SeqsUpTo(OutBytes, MaxOutLen)

\* strings.TrimRight(s, "\n")
RECURSIVE TrimRightNL(_)
TrimRightNL(s) ==
    IF s # <<>> /\ s[Len(s)] = "\n" THEN TrimRightNL(SubSeq(s, 1, Len(s) - 1)) ELSE s

\* strings.Split(s, "\n"): always at least one element.
RECURSIVE SplitNL(_)
SplitNL(s) ==
    LET i == IndexNL(s, 1) IN
    IF i = 0 THEN <<s>>
    ELSE <<SubSeq(s, 1, i - 1)>> \o SplitNL(SubSeq(s, i + 1, Len(s)))

\* How `sudo pacman -Qqtd` can end: not started, or exited with a code.
QueryResults ==
    {[started |-> FALSE, code |-> 0]}
    \cup {[started |-> TRUE, code |-> c] : c \in 0..MaxExitCode}

NoOrph ==
    [ran |-> FALSE, query |-> [started |-> FALSE, code |-> 0], output |-> <<>>,
     noSuperfluous |-> FALSE, removal |-> <<>>, removed |-> FALSE, err |-> FALSE]

\* (mutant) every failure of the query is taken for "no orphans".
removeSuperfluousPackages_AnyFailureIsEmpty(q, output, rmFails) ==
    IF ~q.started \/ q.code # 0
    THEN [ran |-> TRUE, query |-> q, output |-> output, noSuperfluous |-> TRUE,
          removal |-> <<>>, removed |-> FALSE, err |-> FALSE]
    ELSE [ran |-> TRUE, query |-> q, output |-> output, noSuperfluous |-> FALSE,
          removal |-> SplitNL(TrimRightNL(output)), removed |-> TRUE,
          err |-> rmFails]

\* removeSuperfluousPackages: what it printed, the argument list of the
\* removal command if one was invoked, and whether it returned an error.
removeSuperfluousPackages(q, output, rmFails) ==
    IF ~q.started \/ q.code # 0
    THEN IF q.started /\ q.code = 1
         THEN [ran |-> TRUE, query |-> q, output |-> output, noSuperfluous |-> TRUE,
               removal |-> <<>>, removed |-> FALSE, err |-> FALSE]
         ELSE [ran |-> TRUE, query |-> q, output |-> output, noSuperfluous |-> FALSE,
               removal |-> <<>>, removed |-> FALSE, err |-> TRUE]
    ELSE LET pkgs == SplitNL(TrimRightNL(output)) IN
         IF Len(pkgs) = 0
         THEN [ran |-> TRUE, query |-> q, output |-> output, noSuperfluous |-> FALSE,
               removal |-> <<>>, removed |-> FALSE, err |-> FALSE]
         ELSE [ran |-> TRUE, query |-> q, output |-> output, noSuperfluous |-> FALSE,
               removal |-> pkgs, removed |-> TRUE, err |-> rmFails]

\* ------------------------------------------------------------------ state
VARIABLES
    stateFile,      \* the state file (archupd.json)
    log,            \* /var/log/pacman.log
    run,            \* how many times the program has been started
    pc,             \* main: the orchestrator's state
    exitCode,       \* the process's exit status, -1 while it runs
    steps,          \* main: the external steps started so far, in order
    failed,         \* history: the step whose error reached exitOnError
    qcOut,          \* history: the `pacman -Qc` output getChangelogs read last
    changelogsPre,  \* main: changelogsPre
    changelogsPost, \* main: changelogsPost
    logMon,         \* main: logMon
    foundALPMLogs,  \* main: foundALPMLogs
    alpmOut,        \* main: the ALPM log lines printed
    tailRead,       \* the lines the scanner read from logMon
    caught,         \* the bytes catchUp read from logMon
    appended,       \* history: the bytes appended to log since logMon was opened
    diffOut,        \* what showChangelogDiff printed
    orph,           \* what removeSuperfluousPackages did
    printed,        \* main: the news lines printed
    newsCh,         \* the buffer of newsCh
    closed,         \* whether newsCh is closed
    ppc,            \* readNews: where the goroutine is
    state,          \* readNews: state
    items,          \* readNews: items
    idx,            \* readNews: the position of the range loop
    foundAny,       \* readNews: foundAny
    sending,        \* readNews: the line of the `ch <-` it is blocked in
    deferWrite,     \* readNews: whether `defer writeState(&state)` was reached
    outcome,        \* history: how this run's poll went
    sent,           \* history: the lines this run's poller sent
    writes,         \* history: the writeState calls of this run
    fetched,        \* history: feed.Items as the decoder left them, unsorted
    diag,           \* history: the diagnostics readState printed in this run
    fileAtStart,    \* history: the state file when this run started
    pollerAtExit,   \* history: ppc when the process exited
    wmHist,         \* history: latest_seen after the last two successful
                    \* non-empty polls
    covered,        \* history: the instants at or before a persisted watermark
    coveredPrev     \* history: covered, as it was when this run started

fileVars == <<stateFile, log>>
orchVars == <<pc, exitCode, steps, failed, qcOut, changelogsPre, changelogsPost, logMon,
              foundALPMLogs, alpmOut, tailRead, caught, appended, diffOut, orph, printed>>
chanVars == <<newsCh, closed>>
pollVars == <<ppc, state, items, idx, foundAny, sending, deferWrite>>
histVars == <<outcome, sent, writes, fetched, diag, fileAtStart, pollerAtExit, wmHist,
              covered, coveredPrev>>
vars == <<fileVars, run, orchVars, chanVars, pollVars, histVars>>

NoMon == [off |-> -1]
NoDiff == [diffs |-> {}, noUpdated |-> FALSE]

RunFiles ==
    {AbsentFile, JsonFile([LastModified |-> "v1", LatestItemTime |-> 1])}
InitFiles ==
    {AbsentFile, UnreadableFile, GarbageFile,
     BadFieldFile([LastModified |-> "v1", LatestItemTime |-> 0]),
     BadFieldFile([LastModified |-> "", LatestItemTime |-> 1])}
    \cup {JsonFile([LastModified |-> lm, LatestItemTime |-> t]) :
            lm \in {"", "v1"}, t \in Times}
\* Every state file: the files no poll has written, and every State a poll
\* can have written.
AllFiles ==
    InitFiles
    \cup {JsonFile([LastModified |-> lm, LatestItemTime |-> t]) :
            lm \in {""} \cup Validators, t \in Times}
\* The logs a run starts with: empty, or one earlier marker line.
RunLogs == {<<>>, <<"M", "\n">>}
\* What the upgrade appends to the log in a run.
RunWrites == {<<>>, <<"x", "\n">>, <<"x", "\n", "M", "x", "\n">>}

\* The state of a process that has just been started.
ProcInit ==
    /\ pc = "Start"
    /\ exitCode = -1
    /\ steps = <<>>
    /\ failed = "none"
    /\ qcOut = <<>>
    /\ changelogsPre = EmptyMap
    /\ changelogsPost = EmptyMap
    /\ logMon = NoMon
    /\ foundALPMLogs = FALSE
    /\ alpmOut = <<>>
    /\ tailRead = <<>>
    /\ caught = <<>>
    /\ appended = <<>>
    /\ diffOut = NoDiff
    /\ orph = NoOrph
    /\ printed = <<>>
    /\ newsCh = <<>>
    /\ closed = FALSE
    /\ ppc = "idle"
    /\ state = ZeroState
    /\ items = <<>>
    /\ idx = 0
    /\ foundAny = FALSE
    /\ sending = NoLine
    /\ deferWrite = FALSE
    /\ outcome = "none"
    /\ sent = <<>>
    /\ writes = 0
    /\ fetched = <<>>
    /\ diag = <<>>
    /\ pollerAtExit = "none"

Init ==
    /\ stateFile \in RunFiles
    /\ log \in RunLogs
    /\ run = 1
    /\ ProcInit
    /\ fileAtStart = stateFile
    /\ wmHist = <<>>
    /\ covered = {}
    /\ coveredPrev = {}

\* ------------------------------------------------------------------ readNews
\* state := readState()
PollerReadState ==
    /\ ppc = "readState"
    /\ state' = readState(stateFile)
    /\ diag' = diag \o readStatePrints(stateFile)
    /\ ppc' = "do"
    /\ UNCHANGED <<fileVars, run, orchVars, chanVars, items, idx, foundAny,
                   sending, deferWrite, outcome, sent, writes, fetched,
                   fileAtStart, pollerAtExit, wmHist, covered, coveredPrev>>

\* (mutant) writeState is deferred before the body is decoded.
DeferWriteReached_BeforeDecode(resp) == TRUE

\* Whether a 200 response reaches `defer writeState(&state)`: the statement
\* follows the return taken when the body does not decode.
DeferWriteReached(resp) == resp.ok

\* From http.DefaultClient.Do(req) to the first send, or to the range loop.
\* The request is conditional (If-Modified-Since) iff state.LastModified is
\* not empty, and only a conditional request is answered 304.
PollerDo(resp) ==
    /\ ppc = "do"
    /\ resp.kind = "304" => state.LastModified # ""
    /\ fetched' = IF resp.kind = "200" /\ resp.ok THEN resp.items ELSE fetched
    /\ UNCHANGED <<fileVars, run, orchVars, chanVars, idx, foundAny, sent,
                   writes, diag, fileAtStart, pollerAtExit, wmHist, covered,
                   coveredPrev>>
    /\ IF resp.kind = "neterr"
       THEN /\ sending' = SendErrLine
            /\ ppc' = "ret"
            /\ outcome' = "neterr"
            /\ UNCHANGED <<state, items, deferWrite>>
       ELSE IF resp.kind = "304"
       THEN /\ sending' = NoNewsLine
            /\ ppc' = "ret"
            /\ outcome' = "304"
            /\ UNCHANGED <<state, items, deferWrite>>
       ELSE IF resp.kind # "200"
       THEN /\ sending' = StatusLine
            /\ ppc' = "ret"
            /\ outcome' = "other"
            /\ UNCHANGED <<state, items, deferWrite>>
       ELSE /\ state' = IF resp.lastMod # <<>>
                        THEN [state EXCEPT !.LastModified = resp.lastMod[1]]
                        ELSE state
            /\ IF ~resp.ok
               THEN /\ sending' = DecodeErrLine
                    /\ ppc' = "ret"
                    /\ outcome' = "parsefail"
                    /\ deferWrite' = DeferWriteReached(resp)
                    /\ UNCHANGED items
               ELSE /\ deferWrite' = DeferWriteReached(resp)
                    /\ items' = SortDesc(resp.items)
                    /\ IF Len(resp.items) = 0
                       THEN /\ sending' = EmptyFeedLine
                            /\ ppc' = "ret"
                            /\ outcome' = "empty"
                       ELSE /\ sending' = NoLine
                            /\ ppc' = "loop"
                            /\ outcome' = "items"

\* ch <- line: blocks while the buffer is full.
PollerSend ==
    /\ ppc \in {"loop", "item", "ret"}
    /\ sending # NoLine
    /\ Len(newsCh) < ChanCap
    /\ newsCh' = Append(newsCh, sending)
    /\ sent' = Append(sent, sending)
    /\ sending' = NoLine
    /\ UNCHANGED <<fileVars, run, orchVars, closed, ppc, state, items, idx,
                   foundAny, deferWrite, outcome, writes, fetched, diag, fileAtStart,
                   pollerAtExit, wmHist, covered, coveredPrev>>

\* (mutant) the watermark is taken from the last item of the sorted list.
NewWatermark_Oldest(its) == its[Len(its)]

\* state.LatestItemTime = items[0].Time.Time
NewWatermark(its) == its[1]

\* One iteration of `for _, item := range items`, up to its first send; past
\* the last item, the statements after the loop up to the send of line 196.
PollerLoop ==
    /\ ppc = "loop"
    /\ sending = NoLine
    /\ UNCHANGED <<fileVars, run, orchVars, chanVars, items, deferWrite, histVars>>
    /\ IF idx + 1 > Len(items)
       THEN /\ state' = [state EXCEPT !.LatestItemTime = NewWatermark(items)]
            /\ sending' = IF foundAny THEN NoLine ELSE NoNewsLine
            /\ ppc' = "ret"
            /\ UNCHANGED <<idx, foundAny>>
       ELSE IF After(items[idx + 1], state.LatestItemTime)
       THEN IF ~foundAny
            THEN /\ sending' = HeaderLine
                 /\ ppc' = "item"
                 /\ UNCHANGED <<state, idx, foundAny>>
            ELSE /\ sending' = ItemLine(items[idx + 1])
                 /\ idx' = idx + 1
                 /\ UNCHANGED <<state, ppc, foundAny>>
       ELSE /\ idx' = idx + 1
            /\ UNCHANGED <<state, ppc, foundAny, sending>>

\* The item line of the iteration that sent "Arch Linux news:" first.
PollerItem ==
    /\ ppc = "item"
    /\ sending = NoLine
    /\ sending' = ItemLine(items[idx + 1])
    /\ foundAny' = TRUE
    /\ idx' = idx + 1
    /\ ppc' = "loop"
    /\ UNCHANGED <<fileVars, run, orchVars, chanVars, state, items, deferWrite,
                   histVars>>

\* (mutant) writeState is deferred at the top of readNews.
RunsDeferredWrite_Always == TRUE

\* Whether a return of readNews runs writeState: only once the defer
\* statement has been executed.
RunsDeferredWrite == deferWrite

\* (mutant) the deferred calls run in the order they were deferred: the
\* channel is closed before writeState is called.
PollerReturn_CloseFirst(created) ==
    /\ ppc = "ret"
    /\ sending = NoLine
    /\ created
    /\ ppc' = "close"
    /\ closed' = TRUE
    /\ UNCHANGED <<fileVars, run, orchVars, newsCh, state, items, idx, foundAny,
                   sending, deferWrite, outcome, sent, writes, fetched, diag,
                   fileAtStart, pollerAtExit, wmHist, covered, coveredPrev>>

\* return: the deferred writeState(&state), if it was deferred.
PollerReturn(created) ==
    /\ ppc = "ret"
    /\ sending = NoLine
    /\ ppc' = "close"
    /\ IF RunsDeferredWrite
       THEN /\ stateFile' = writeState(stateFile, state, created)
            /\ writes' = writes + 1
            /\ wmHist' = IF outcome = "items" /\ stateFile'.kind = "json"
                         THEN LastTwo(Append(wmHist, stateFile'.LatestItemTime))
                         ELSE wmHist
            /\ covered' = IF created
                          THEN covered \cup {t \in Times : t <= state.LatestItemTime}
                          ELSE covered
       ELSE /\ created
            /\ UNCHANGED <<stateFile, writes, wmHist, covered>>
    /\ UNCHANGED <<log, run, orchVars, chanVars, state, items, idx, foundAny,
                   sending, deferWrite, outcome, sent, fetched, diag, fileAtStart, pollerAtExit,
                   coveredPrev>>

\* (mutant) readNews returns without closing the channel.
PollerClose_Forgotten ==
    /\ ppc = "close"
    /\ ppc' = "done"
    /\ UNCHANGED <<fileVars, run, orchVars, chanVars, state, items, idx, foundAny,
                   sending, deferWrite, histVars>>

\* The deferred close(ch).
PollerClose ==
    /\ ppc = "close"
    /\ closed' = TRUE
    /\ ppc' = "done"
    /\ UNCHANGED <<fileVars, run, orchVars, newsCh, state, items, idx, foundAny,
                   sending, deferWrite, histVars>>

Poller(responses) ==
    \/ PollerReadState
    \/ \E resp \in responses : PollerDo(resp)
    \/ PollerSend
    \/ PollerLoop
    \/ PollerItem
    \/ \E created \in BOOLEAN : PollerReturn(created)
    \/ PollerClose

\* ------------------------------------------------------------------ main
\* (mutant) the error is printed and main goes on to the news.
Fatal_PrintOnly ==
    /\ pc' = "DrainNews"
    /\ UNCHANGED <<exitCode, pollerAtExit, ppc>>

\* exitOnError(err) with err != nil: os.Exit(1) ends the process, and the
\* readNews goroutine with it, wherever it is.
Fatal ==
    /\ pc' = "Exit1"
    /\ exitCode' = 1
    /\ pollerAtExit' = ppc
    /\ ppc' = IF ppc = "done" THEN "done" ELSE "dead"

\* exitOnError(err) with err == nil
Proceed(next) ==
    /\ pc' = next
    /\ UNCHANGED <<exitCode, pollerAtExit, ppc>>

pollRest == <<state, items, idx, foundAny, sending, deferWrite>>
histRest == <<outcome, sent, writes, fetched, diag, fileAtStart, wmHist, covered, coveredPrev>>

\* newsCh := make(chan string, 10); go readNews(newsCh)
OrchStart ==
    /\ pc = "Start"
    /\ pc' = "Cleaning"
    /\ ppc' = "readState"
    /\ UNCHANGED <<fileVars, run, exitCode, steps, failed, qcOut, changelogsPre, changelogsPost,
                   logMon, foundALPMLogs, alpmOut, tailRead, caught, appended, diffOut,
                   orph, printed, chanVars, pollRest, histVars>>

\* (mutant) readNews is called without `go`: main goes on once it returned.
OrchCleaning_AfterPoll(fails) ==
    /\ pc = "Cleaning"
    /\ ppc = "done"
    /\ steps' = Append(steps, "Cleaning")
    /\ failed' = IF fails THEN "Cleaning" ELSE failed
    /\ UNCHANGED qcOut
    /\ IF fails THEN Fatal ELSE Proceed("SnapshotPre")
    /\ UNCHANGED <<fileVars, run, changelogsPre, changelogsPost, logMon,
                   foundALPMLogs, alpmOut, tailRead, caught, appended, diffOut, orph,
                   printed, chanVars, pollRest, histRest>>

\* err := pacman("-Sc", "--noconfirm"); exitOnError(err)
OrchCleaning(fails) ==
    /\ pc = "Cleaning"
    /\ steps' = Append(steps, "Cleaning")
    /\ failed' = IF fails THEN "Cleaning" ELSE failed
    /\ UNCHANGED qcOut
    /\ IF fails THEN Fatal ELSE Proceed("SnapshotPre")
    /\ UNCHANGED <<fileVars, run, changelogsPre, changelogsPost, logMon,
                   foundALPMLogs, alpmOut, tailRead, caught, appended, diffOut, orph,
                   printed, chanVars, pollRest, histRest>>

\* changelogsPre, err := getChangelogs(); exitOnError(err)
OrchSnapshotPre(fails, out) ==
    /\ pc = "SnapshotPre"
    /\ steps' = Append(steps, "SnapshotPre")
    /\ failed' = IF fails THEN "SnapshotPre" ELSE failed
    /\ qcOut' = IF fails THEN qcOut ELSE out
    /\ IF fails
       THEN Fatal /\ UNCHANGED changelogsPre
       ELSE Proceed("WatchOpen") /\ changelogsPre' = getChangelogs(out)
    /\ UNCHANGED <<fileVars, run, changelogsPost, logMon, foundALPMLogs, alpmOut,
                   tailRead, caught, appended, diffOut, orph, printed, chanVars, pollRest,
                   histRest>>

\* logMon, err := newLogMonitor(PACMAN_LOG_PATH); exitOnError(err)
OrchWatchOpen(fails) ==
    /\ pc = "WatchOpen"
    /\ steps' = Append(steps, "WatchOpen")
    /\ failed' = IF fails THEN "WatchOpen" ELSE failed
    /\ UNCHANGED qcOut
    /\ IF fails
       THEN Fatal /\ UNCHANGED logMon
       ELSE Proceed("Upgrading") /\ logMon' = newLogMonitor(log)
    /\ UNCHANGED <<fileVars, run, changelogsPre, changelogsPost, foundALPMLogs,
                   alpmOut, tailRead, caught, appended, diffOut, orph, printed, chanVars,
                   pollRest, histRest>>

\* err = pacman("-Syu", "--noconfirm"); exitOnError(err).  While it runs,
\* pacman appends `written` to the log.
OrchUpgrading(fails, written) ==
    /\ pc = "Upgrading"
    /\ steps' = Append(steps, "Upgrading")
    /\ failed' = IF fails THEN "Upgrading" ELSE failed
    /\ UNCHANGED qcOut
    /\ log' = log \o written
    /\ appended' = appended \o written
    /\ IF fails THEN Fatal ELSE Proceed("TailRead")
    /\ UNCHANGED <<stateFile, run, changelogsPre, changelogsPost, logMon,
                   foundALPMLogs, alpmOut, tailRead, caught, diffOut, orph, printed,
                   chanVars, pollRest, histRest>>

\* (mutant) the post-upgrade snapshot is left out.
AfterTailRead_StraightToDiff(found) == IF found THEN "Diff" ELSE "DrainNews"

\* (mutant) the post-upgrade work is not gated on foundALPMLogs.
AfterTailRead_Ungated(found) == "SnapshotPost"

\* if foundALPMLogs { ... }: the state after the tail read.
AfterTailRead(found) == IF found THEN "SnapshotPost" ELSE "DrainNews"

\* The scan of logMon.lines() for lines containing the marker.
OrchTailRead ==
    /\ pc = "TailRead"
    /\ steps' = Append(steps, "TailRead")
    /\ UNCHANGED <<failed, qcOut>>
    /\ LET ls == lines(logMon, log)
           alpm == SelectSeq(ls, LAMBDA l : Contains(l, PACMAN_LOG_ALPM_MARKER))
       IN /\ tailRead' = ls
          /\ alpmOut' = alpm
          /\ foundALPMLogs' = (alpm # <<>>)
          /\ logMon' = [off |-> Len(log)]
          /\ Proceed(AfterTailRead(alpm # <<>>))
    /\ UNCHANGED <<fileVars, run, changelogsPre, changelogsPost, appended,
                   caught, diffOut, orph, printed, chanVars, pollRest, histRest>>

\* changelogsPost, err := getChangelogs(); exitOnError(err)
OrchSnapshotPost(fails, out) ==
    /\ pc = "SnapshotPost"
    /\ steps' = Append(steps, "SnapshotPost")
    /\ failed' = IF fails THEN "SnapshotPost" ELSE failed
    /\ qcOut' = IF fails THEN qcOut ELSE out
    /\ IF fails
       THEN Fatal /\ UNCHANGED changelogsPost
       ELSE Proceed("Diff") /\ changelogsPost' = getChangelogs(out)
    /\ UNCHANGED <<fileVars, run, changelogsPre, logMon, foundALPMLogs, alpmOut,
                   tailRead, caught, appended, diffOut, orph, printed, chanVars, pollRest,
                   histRest>>

\* showChangelogDiff(changelogsPre, changelogsPost)
OrchDiff ==
    /\ pc = "Diff"
    /\ steps' = Append(steps, "Diff")
    /\ UNCHANGED <<failed, qcOut>>
    /\ diffOut' = showChangelogDiff(changelogsPre, changelogsPost)
    /\ Proceed("RemoveOrphans")
    /\ UNCHANGED <<fileVars, run, changelogsPre, changelogsPost, logMon,
                   foundALPMLogs, alpmOut, tailRead, caught, appended, orph, printed,
                   chanVars, pollRest, histRest>>

\* err = removeSuperfluousPackages(); exitOnError(err)
OrchRemoveOrphans(q, output, rmFails) ==
    /\ pc = "RemoveOrphans"
    /\ LET r == removeSuperfluousPackages(q, output, rmFails) IN
       /\ orph' = r
       /\ steps' = steps \o <<"RemoveOrphans">>
                         \o (IF r.removed THEN <<"Removal">> ELSE <<>>)
       /\ failed' = IF r.err THEN "RemoveOrphans" ELSE failed
       /\ UNCHANGED qcOut
       /\ IF r.err THEN Fatal ELSE Proceed("DrainNews")
    /\ UNCHANGED <<fileVars, run, changelogsPre, changelogsPost, logMon,
                   foundALPMLogs, alpmOut, tailRead, caught, appended, diffOut, printed,
                   chanVars, pollRest, histRest>>

\* (mutant) a receive takes the newest line of the buffer.
Recv_Newest(ch) == [val |-> ch[Len(ch)], rest |-> SubSeq(ch, 1, Len(ch) - 1)]

\* A receive from a channel whose buffer is not empty: the oldest line.
Recv(ch) == [val |-> Head(ch), rest |-> Tail(ch)]

\* for s := range newsCh { fmt.Println(s) }: one receive, or the end of the
\* loop (and of main) once the channel is closed and empty.
OrchDrain ==
    /\ pc = "DrainNews"
    /\ IF newsCh # <<>>
       THEN /\ printed' = Append(printed, Recv(newsCh).val)
            /\ newsCh' = Recv(newsCh).rest
            /\ UNCHANGED <<pc, exitCode>>
       ELSE /\ closed
            /\ pc' = "Done"
            /\ exitCode' = 0
            /\ UNCHANGED <<printed, newsCh>>
    /\ UNCHANGED <<fileVars, run, steps, failed, qcOut, changelogsPre, changelogsPost, logMon,
                   foundALPMLogs, alpmOut, tailRead, caught, appended, diffOut, orph,
                   closed, pollVars, histVars>>

Orch ==
    \/ OrchStart
    \/ \E fails \in BOOLEAN : OrchCleaning(fails)
    \/ \E fails \in BOOLEAN, out \in QcOutputs : OrchSnapshotPre(fails, out)
    \/ \E fails \in BOOLEAN : OrchWatchOpen(fails)
    \/ \E fails \in BOOLEAN, written \in RunWrites : OrchUpgrading(fails, written)
    \/ OrchTailRead
    \/ \E fails \in BOOLEAN, out \in QcOutputs : OrchSnapshotPost(fails, out)
    \/ OrchDiff
    \/ \E q \in QueryResults, output \in QqtdOutputs, rmFails \in BOOLEAN :
           OrchRemoveOrphans(q, output, rmFails)
    \/ OrchDrain

\* One run of the program.
Next == Poller(RunResponses) \/ Orch

Spec == Init /\ [][Next]_vars

\* The Go scheduler runs the readNews goroutine whenever it can take a step
\* (the HTTP request is taken to return), and main's receive loop likewise.
FairSpec ==
    Spec /\ WF_vars(Poller(RunResponses)) /\ WF_vars(OrchDrain)

\* ------------------------------------------------------------------ repeated runs
\* The program is started again: a new process (as ProcInit says), the state
\* file and the log as the last run left them.
NewRun ==
    /\ pc \in {"Done", "Exit1"}
    /\ run < MaxRuns
    /\ run' = run + 1
    /\ pc' = "Start"
    /\ exitCode' = -1
    /\ steps' = <<>>
    /\ failed' = "none"
    /\ qcOut' = <<>>
    /\ changelogsPre' = EmptyMap
    /\ changelogsPost' = EmptyMap
    /\ logMon' = NoMon
    /\ foundALPMLogs' = FALSE
    /\ alpmOut' = <<>>
    /\ tailRead' = <<>>
    /\ caught' = <<>>
    /\ appended' = <<>>
    /\ diffOut' = NoDiff
    /\ orph' = NoOrph
    /\ printed' = <<>>
    /\ newsCh' = <<>>
    /\ closed' = FALSE
    /\ ppc' = "idle"
    /\ state' = ZeroState
    /\ items' = <<>>
    /\ idx' = 0
    /\ foundAny' = FALSE
    /\ sending' = NoLine
    /\ deferWrite' = FALSE
    /\ outcome' = "none"
    /\ sent' = <<>>
    /\ writes' = 0
    /\ fetched' = <<>>
    /\ diag' = <<>>
    /\ pollerAtExit' = "none"
    /\ fileAtStart' = stateFile
    /\ coveredPrev' = covered
    /\ UNCHANGED <<fileVars, wmHist, covered>>

\* A run in which the upgrade finds nothing to do: only the cleanup can fail.
OrchQuiet ==
    \/ OrchStart
    \/ \E fails \in BOOLEAN : OrchCleaning(fails)
    \/ OrchSnapshotPre(FALSE, <<>>)
    \/ OrchWatchOpen(FALSE)
    \/ OrchUpgrading(FALSE, <<>>)
    \/ OrchTailRead
    \/ OrchDrain

InitPolls ==
    /\ stateFile \in InitFiles
    /\ log = <<>>
    /\ run = 1
    /\ ProcInit
    /\ fileAtStart = stateFile
    /\ wmHist = <<>>
    /\ covered = {}
    /\ coveredPrev = {}

\* Up to MaxRuns runs, one poll each, over every response.
NextPolls == Poller(Responses) \/ OrchQuiet \/ NewRun

SpecPolls == InitPolls /\ [][NextPolls]_vars

\* One run with one poll, from every state file, over every response.
InitOnePoll ==
    /\ stateFile \in AllFiles
    /\ log = <<>>
    /\ run = 1
    /\ ProcInit
    /\ fileAtStart = stateFile
    /\ wmHist = <<>>
    /\ covered = {}
    /\ coveredPrev = {}

NextOnePoll == Poller(Responses) \/ OrchQuiet

SpecOnePoll == InitOnePoll /\ [][NextOnePoll]_vars

\* ------------------------------------------------------------------ the log tail
\* Another process appends a byte to the log, before or after the monitor
\* is opened, until the monitor is read.
LogAppend(b) ==
    /\ pc \in {"Cleaning", "SnapshotPre", "WatchOpen", "Upgrading", "TailRead"}
    /\ Len(log) < MaxLogLen
    /\ log' = Append(log, b)
    /\ appended' = IF logMon # NoMon THEN Append(appended, b) ELSE appended
    /\ UNCHANGED <<stateFile, run, pc, exitCode, steps, failed, qcOut, changelogsPre,
                   changelogsPost, logMon, foundALPMLogs, alpmOut, tailRead,
                   caught, diffOut, orph, printed, chanVars, pollVars, histVars>>

\* updall.go's main reads the monitor in one piece:
\* logs, err := logMon.catchUp(); exitOnError(err); fmt.Print(logs)
UpdallCatchUp ==
    /\ pc = "TailRead"
    /\ steps' = Append(steps, "TailRead")
    /\ UNCHANGED <<failed, qcOut>>
    /\ caught' = catchUp(logMon, log)
    /\ logMon' = [off |-> Len(log)]
    /\ Proceed("RemoveOrphans")
    /\ UNCHANGED <<fileVars, run, changelogsPre, changelogsPost, foundALPMLogs,
                   alpmOut, tailRead, appended, diffOut, orph, printed, chanVars,
                   pollRest, histRest>>

\* ------------------------------------------------------------------ the changelogs
\* The main path from the first snapshot to the diff, over every `pacman -Qc`
\* output, in a run whose upgrade logs a marker line.
NextChangelogs ==
    \/ OrchStart
    \/ OrchCleaning(FALSE)
    \/ \E fails \in BOOLEAN, out \in AllQcOutputs : OrchSnapshotPre(fails, out)
    \/ OrchWatchOpen(FALSE)
    \/ OrchUpgrading(FALSE, <<"M", "\n">>)
    \/ OrchTailRead
    \/ \E fails \in BOOLEAN, out \in AllQcOutputs : OrchSnapshotPost(fails, out)
    \/ OrchDiff

InitLog ==
    /\ stateFile = AbsentFile
    /\ log = <<>>
    /\ run = 1
    /\ ProcInit
    /\ fileAtStart = stateFile
    /\ wmHist = <<>>
    /\ covered = {}
    /\ coveredPrev = {}

\* The main path up to the read of the log tail, with the log written by
\* other processes all along.
NextLog ==
    \/ OrchStart
    \/ OrchCleaning(FALSE)
    \/ OrchSnapshotPre(FALSE, <<>>)
    \/ OrchWatchOpen(FALSE)
    \/ OrchUpgrading(FALSE, <<>>)
    \/ OrchTailRead
    \/ UpdallCatchUp
    \/ \E b \in LogBytes : LogAppend(b)

SpecLog == InitLog /\ [][NextLog]_vars

SpecChangelogs == InitLog /\ [][NextChangelogs]_vars

\* ------------------------------------------------------------------ properties
IsPrefix(s, t) == Len(s) <= Len(t) /\ s = SubSeq(t, 1, Len(s))
Last(s) == s[Len(s)]

\* C1 (the claim as stated): over successive polls that fetch successfully
\* and parse a non-empty item list, the persisted latest_seen never
\* decreases, whatever the feeds contain.
C1_MonotonicWatermark ==
    Len(wmHist) = 2 => wmHist[1] <= wmHist[2]

\* C2 (the claim as stated): an item whose published-at is at or before a
\* watermark persisted by an earlier poll gets no news line in a later poll.
C2_NoDuplicateAnnouncement ==
    \A i \in 1..Len(sent) : sent[i].k = "item" => sent[i].t \notin coveredPrev

\* C3: tail isolation.  Once the monitor has been read, catchUp returned
\* exactly the bytes appended since newLogMonitor, and lines() yielded exactly
\* the lines of those bytes: nothing of what the log held at the open.
C3_TailIsolation ==
    /\ pc = "RemoveOrphans" => caught = appended
    /\ pc \in {"SnapshotPost", "DrainNews"} => tailRead = ScanLines(appended)

C3_Witness ==
    /\ pc \in {"SnapshotPost", "DrainNews"}
    /\ Len(appended) >= 2
    /\ Len(log) > Len(appended)
    /\ Len(tailRead) >= 2

HasMarkerLine(ls) ==
    \E i \in 1..Len(ls) : Contains(ls[i], PACMAN_LOG_ALPM_MARKER)
BaseSteps == <<"Cleaning", "SnapshotPre", "WatchOpen", "Upgrading", "TailRead">>
GatedSteps == <<"SnapshotPost", "Diff", "RemoveOrphans">>
C5_MarkerGating ==
    /\ (\E i \in 1..Len(steps) :
            steps[i] \in {"SnapshotPost", "Diff", "RemoveOrphans", "Removal"})
       => HasMarkerLine(tailRead)
    /\ (pc \in {"DrainNews", "Done"} /\ ~HasMarkerLine(tailRead))
       => /\ steps = BaseSteps
          /\ changelogsPost = EmptyMap /\ diffOut = NoDiff /\ orph = NoOrph
    /\ (pc \in {"DrainNews", "Done"} /\ HasMarkerLine(tailRead))
       => /\ SubSeq(steps, 1, 8) = BaseSteps \o GatedSteps
          /\ orph.ran

C5_Witness ==
    /\ pc = "DrainNews"
    /\ tailRead # <<>>
    /\ ~HasMarkerLine(tailRead)
    /\ HasMarkerLine(ScanLines(log))

\* C6: a step whose error reaches exitOnError ends the run there: exit
\* status 1, that step the last one started, no news line printed, nothing
\* of the program left to run; and the failing step of each state can be
\* taken wherever the poller is.
FullSteps == BaseSteps \o GatedSteps \o <<"Removal">>
C6_FatalStops ==
    /\ failed # "none"
       => /\ pc = "Exit1" /\ exitCode = 1
          /\ IsPrefix(steps, FullSteps)
          /\ Last(steps) = failed
             \/ (failed = "RemoveOrphans" /\ Last(steps) = "Removal")
          /\ printed = <<>>
          /\ ~ENABLED Next
    /\ pc = "Exit1" => failed # "none"
    /\ pc = "Cleaning" => ENABLED OrchCleaning(TRUE)
    /\ pc = "SnapshotPre" => ENABLED OrchSnapshotPre(TRUE, <<>>)
    /\ pc = "WatchOpen" => ENABLED OrchWatchOpen(TRUE)
    /\ pc = "Upgrading" => ENABLED OrchUpgrading(TRUE, <<>>)
    /\ pc = "SnapshotPost" => ENABLED OrchSnapshotPost(TRUE, <<>>)
    /\ pc = "RemoveOrphans"
       => ENABLED OrchRemoveOrphans([started |-> FALSE, code |-> 0], <<>>, FALSE)

C6_Witness ==
    /\ pc = "Exit1"
    /\ failed = "Upgrading"
    /\ pollerAtExit = "do"
    /\ ppc = "dead"

\* C7: under fair scheduling a main that has reached DrainNews reaches Done,
\* whatever the poll's outcome and however many lines the poller sends.
C7_DrainTerminates == (pc = "DrainNews") ~> (pc = "Done")

C7_Witness ==
    /\ pc = "DrainNews"
    /\ printed = <<>>
    /\ Len(newsCh) = ChanCap
    /\ sending # NoLine

\* C8: when main is done, the news lines it printed are the lines the poller
\* sent, in the order sent; before that, the lines printed and the lines in
\* the buffer are together the lines sent.
C8_OrderedLosslessDrain ==
    /\ printed \o newsCh = sent
    /\ pc = "Done" => printed = sent

C8_Witness ==
    /\ pc = "Done"
    /\ Len(printed) > ChanCap

\* C9: after a request error, a 304 or a status other than 200, the poller
\* has sent exactly one line and closed the channel, and writeState was not
\* called: the state file is as the run found it.
C9_NonSuccessLeavesState ==
    /\ outcome \in {"neterr", "304", "other"}
       => writes = 0 /\ stateFile = fileAtStart /\ Len(sent) <= 1
    /\ (ppc = "done" /\ outcome \in {"neterr", "304", "other"})
       => Len(sent) = 1 /\ closed

C9_Witness ==
    /\ ppc = "done"
    /\ outcome = "304"
    /\ sent = <<NoNewsLine>>
    /\ stateFile.kind = "json"

\* C10: an orphan query that exits with code 1 makes
\* removeSuperfluousPackages print "No superfluous packages.", return nil
\* and invoke no removal; one that exits with another non-zero code or does
\* not start makes it return the error, which ends the run with status 1,
\* and invoke no removal.
C10_OrphanExitCode ==
    orph.ran =>
        /\ (orph.query.started /\ orph.query.code = 1)
           => /\ orph.noSuperfluous /\ ~orph.err /\ ~orph.removed
              /\ "Removal" \notin {steps[i] : i \in 1..Len(steps)}
              /\ pc # "Exit1"
        /\ (~orph.query.started \/ orph.query.code \notin {0, 1})
           => /\ orph.err /\ ~orph.removed /\ ~orph.noSuperfluous
              /\ "Removal" \notin {steps[i] : i \in 1..Len(steps)}
              /\ pc = "Exit1" /\ exitCode = 1

C10_Witness ==
    /\ orph.ran
    /\ orph.query.started
    /\ orph.query.code = 2
    /\ pc = "Exit1"

\* ------------------------------------------------------------------ C11, C12
Ran(step) == step \in {steps[i] : i \in 1..Len(steps)}

\* C11: for every pair of changelog maps and every package name,
\* showChangelogDiff renders a diff for the package if and only if the name
\* is a key of both maps and its two texts differ (a package only in the pre
\* map, only in the post map, or with the same text in both renders
\* nothing), and "No updated changelogs." is printed exactly when no package
\* was rendered.
C11_DiffSymmetry ==
    Ran("Diff") =>
        /\ \A pkg \in PkgNames :
              pkg \in diffOut.diffs
              <=> /\ pkg \in DOMAIN changelogsPre
                  /\ pkg \in DOMAIN changelogsPost
                  /\ changelogsPre[pkg] # changelogsPost[pkg]
        /\ diffOut.diffs \subseteq PkgNames
        /\ diffOut.noUpdated <=> diffOut.diffs = {}

\* A diff was rendered for one package while another, with a text, is only
\* in the post map.
C11_Witness ==
    /\ Ran("Diff")
    /\ diffOut.diffs = {"foo"}
    /\ ~diffOut.noUpdated
    /\ "bar" \in DOMAIN changelogsPost
    /\ "bar" \notin DOMAIN changelogsPre
    /\ changelogsPost["bar"] # <<>>

\* The header names of a `pacman -Qc` output.
HeaderNames(out) == {out[i].txt : i \in {j \in 1..Len(out) : out[j].hdr}}

\* The position of the last header line naming p.
LastHeader(out, p) ==
    CHOOSE i \in 1..Len(out) :
        /\ out[i].hdr /\ out[i].txt = p
        /\ \A j \in (i + 1)..Len(out) : ~(out[j].hdr /\ out[j].txt = p)

\* The lines after position i up to the next header line or the end.
BodyAfter(out, i) ==
    LET later == {j \in (i + 1)..Len(out) : out[j].hdr}
        stop == IF later = {} THEN Len(out) + 1
                ELSE CHOOSE j \in later : \A k \in later : j <= k
    IN [k \in 1..(stop - i - 1) |-> out[i + k].txt]

ParsedAs(m, out) ==
    /\ DOMAIN m = HeaderNames(out)
    /\ \A p \in DOMAIN m : m[p] = BodyAfter(out, LastHeader(out, p))

\* C12: for every sequence of `pacman -Qc` output lines, the keys of the map
\* getChangelogs returns are exactly the package names of the header lines,
\* and each name is mapped to the non-header lines (each with its newline)
\* between its header and the next header or the end of the output; when a
\* name has several headers it is the last of them.  Lines before the first
\* header are in no text, and a header with no body maps to the empty text.
C12_ChangelogParsing ==
    /\ (Ran("SnapshotPre") /\ failed # "SnapshotPre" /\ ~Ran("SnapshotPost"))
       => ParsedAs(changelogsPre, qcOut)
    /\ (Ran("SnapshotPost") /\ failed # "SnapshotPost")
       => ParsedAs(changelogsPost, qcOut)

\* A text line before the first header, and two headers with no body.
C12_Witness ==
    /\ Ran("SnapshotPre") /\ ~Ran("SnapshotPost")
    /\ qcOut = <<TxtLine("l1"), HdrLine("foo"), HdrLine("bar")>>
    /\ changelogsPre = [p \in {"foo", "bar"} |-> <<>>]

\* ------------------------------------------------------------------ C13, C14
\* The poll of this run has returned (its deferred calls may still run).
PollReturned == ppc \in {"close", "done"}

\* The watermark readState loaded at the start of this run's poll.
LoadedWatermark == readState(fileAtStart).LatestItemTime

Count(s, x) == Cardinality({i \in 1..Len(s) : s[i] = x})

\* s is one item line per feed item published strictly after the loaded
\* watermark, newest first.
NewerItemLines(s) ==
    /\ \A i \in 1..Len(s) : s[i].k = "item"
    /\ \A i \in 1..(Len(s) - 1) : s[i].t >= s[i + 1].t
    /\ \A t \in Times :
          Count(s, ItemLine(t))
          = IF t > LoadedWatermark THEN Count(fetched, t) ELSE 0

NewerCount == Cardinality({i \in 1..Len(fetched) :
                              fetched[i] > LoadedWatermark})

\* C13 as stated: after a poll that parsed a non-empty feed, the lines sent
\* on the channel are exactly one formatted line per item published strictly
\* after the watermark loaded at poll start, newest first (k newer items
\* give exactly k lines), or the single line "No Arch Linux news." when no
\* item is newer.
C13_ItemLinesOnly ==
    (PollReturned /\ outcome = "items") =>
        IF NewerCount = 0
        THEN sent = <<NoNewsLine>>
        ELSE Len(sent) = NewerCount /\ NewerItemLines(sent)

\* C13 (amended): after a poll that parsed a non-empty feed, the lines sent
\* on the channel are the heading "Arch Linux news:" followed by exactly one
\* formatted line per item published strictly after the watermark loaded at
\* poll start, newest first (k >= 1 newer items give k + 1 lines), or the
\* single line "No Arch Linux news." when no item is newer; an item at or
\* before the watermark produces no line.
C13_HeadingThenItemLines ==
    (PollReturned /\ outcome = "items") =>
        IF NewerCount = 0
        THEN sent = <<NoNewsLine>>
        ELSE /\ Len(sent) = NewerCount + 1
             /\ Head(sent) = HeaderLine
             /\ NewerItemLines(Tail(sent))

\* A feed with one item at the watermark and one after it.
C13_Witness ==
    /\ ppc = "done"
    /\ outcome = "items"
    /\ LoadedWatermark = 1
    /\ fetched = <<1, 2>>
    /\ sent = <<HeaderLine, ItemLine(2)>>

MaxOf(s) == CHOOSE t \in {s[i] : i \in 1..Len(s)} : \A i \in 1..Len(s) : t >= s[i]

\* C14: after a poll that parsed a non-empty feed, the state passed to the
\* deferred writeState has latest_seen equal to the maximum published-at of
\* the feed's items, whether or not any item was newer than the loaded
\* watermark; after a poll that parsed an empty feed the state is written
\* with latest_seen as it was loaded.  The file then holds that state, unless
\* writeState could not create it.
C14_WrittenWatermark ==
    /\ (PollReturned /\ outcome = "items")
       => /\ writes = 1
          /\ state.LatestItemTime = MaxOf(fetched)
          /\ stateFile \in {JsonFile(state), fileAtStart}
    /\ (PollReturned /\ outcome = "empty")
       => /\ writes = 1
          /\ state.LatestItemTime = LoadedWatermark
          /\ stateFile \in {JsonFile(state), fileAtStart}

\* No item is newer than the loaded watermark, and the maximum is written.
C14_Witness ==
    /\ ppc = "done"
    /\ outcome = "items"
    /\ LoadedWatermark = 2
    /\ fetched = <<0, 1>>
    /\ sent = <<NoNewsLine>>
    /\ stateFile = JsonFile(state)
    /\ stateFile.LatestItemTime = 1

\* ------------------------------------------------------------------ C15
\* The package names a `pacman -Qqtd` output lists: its non-empty lines.
ListedPackages(output) == SelectSeq(SplitNL(output), LAMBDA l : l # <<>>)

\* C15: when the orphan query exits with code 0, the removal command is
\* invoked if and only if the query's output lists at least one package
\* name, and then it names exactly the listed packages; an output with no
\* package name (empty, or only newlines) invokes no removal.
C15_RemovalOnlyForPackages ==
    (orph.ran /\ orph.query.started /\ orph.query.code = 0) =>
        /\ orph.removed <=> ListedPackages(orph.output) # <<>>
        /\ Ran("Removal") <=> ListedPackages(orph.output) # <<>>
        /\ orph.removed => orph.removal = ListedPackages(orph.output)

\* ------------------------------------------------------------------ C16
\* The steps main has started, the removal command of RemoveOrphans aside.
OrderedSteps == BaseSteps \o GatedSteps
MainSteps == SelectSeq(steps, LAMBDA st : st # "Removal")

\* The steps that come before main is at position p.
StepsBefore(p) ==
    CASE p = "Start" -> <<>>
      [] p = "Cleaning" -> <<>>
      [] p = "SnapshotPre" -> SubSeq(OrderedSteps, 1, 1)
      [] p = "WatchOpen" -> SubSeq(OrderedSteps, 1, 2)
      [] p = "Upgrading" -> SubSeq(OrderedSteps, 1, 3)
      [] p = "TailRead" -> SubSeq(OrderedSteps, 1, 4)
      [] p = "SnapshotPost" -> SubSeq(OrderedSteps, 1, 5)
      [] p = "Diff" -> SubSeq(OrderedSteps, 1, 6)
      [] p = "RemoveOrphans" -> SubSeq(OrderedSteps, 1, 7)

\* C16: main's steps run one after the other in the order Cleaning,
\* SnapshotPre, WatchOpen, Upgrading, TailRead, then (only together)
\* SnapshotPost, Diff, RemoveOrphans, then DrainNews: at every position the
\* steps started are exactly the ones before it, each of them finished, so
\* no two external commands are in progress at once.  The log monitor's
\* offset is recorded after the pre-snapshot and before the upgrade starts
\* (it is the size the log has when the upgrade starts, and what the upgrade
\* appends lies after it), and the tail is read only once the upgrade has
\* finished.
C16_OrchestratorOrder ==
    /\ IsPrefix(MainSteps, OrderedSteps)
    /\ pc \notin {"DrainNews", "Done", "Exit1"} => steps = StepsBefore(pc)
    /\ pc \in {"DrainNews", "Done"} => MainSteps \in {BaseSteps, OrderedSteps}
    /\ pc = "Exit1" => MainSteps # <<>> /\ Last(MainSteps) = failed
    /\ Ran("Removal") => Last(steps) = "Removal" /\ Last(MainSteps) = "RemoveOrphans"
    /\ logMon # NoMon <=> (Ran("WatchOpen") /\ failed # "WatchOpen")
    /\ logMon # NoMon => changelogsPre = getChangelogs(qcOut) \/ Ran("SnapshotPost")
    /\ pc = "Upgrading" => logMon.off = Len(log) /\ appended = <<>>
    /\ pc = "TailRead" => logMon.off + Len(appended) = Len(log)
    /\ Ran("TailRead") => Ran("Upgrading") /\ failed # "Upgrading"
    /\ ~Ran("TailRead") => tailRead = <<>> /\ alpmOut = <<>> /\ ~foundALPMLogs

\* A run that went through every step, the upgrade having appended to a log
\* that was not empty when the monitor was opened.
C16_Witness ==
    /\ pc = "Done"
    /\ steps = FullSteps
    /\ appended # <<>>
    /\ Len(log) > Len(appended)
    /\ tailRead # <<>>

\* ------------------------------------------------------------------ C17
PreDrain ==
    {"Start", "Cleaning", "SnapshotPre", "WatchOpen", "Upgrading", "TailRead",
     "SnapshotPost", "Diff", "RemoveOrphans"}

\* What readNews works on: its locals, the state file and the channel.
pollerOwned == <<stateFile, chanVars, state, items, idx, foundAny, sending, deferWrite>>

\* C17: in every reachable state in which main is at a position from Start
\* to RemoveOrphans its next step is enabled, whatever state the readNews
\* goroutine is in (not started, running, blocked on a full channel,
\* finished); a step of readNews changes nothing but its own variables, the
\* state file and the channel; and a step of main before DrainNews changes
\* neither the channel, nor the state file, nor a variable of readNews.
C17_MainNeverWaits ==
    /\ [](pc \in PreDrain => ENABLED Orch)
    /\ [][Poller(RunResponses) => UNCHANGED <<log, run, orchVars>>]_vars
    /\ [][(pc \in PreDrain /\ Orch) => UNCHANGED pollerOwned]_vars

\* readNews is blocked sending on the full channel while main is still
\* before the upgrade.
C17_Witness ==
    /\ pc = "Upgrading"
    /\ ppc = "loop"
    /\ sending # NoLine
    /\ Len(newsCh) = ChanCap

\* ------------------------------------------------------------------ C18
\* readState has returned and nothing has been assigned to state since.
StateLoaded == ppc = "do"

Unusable == {"absent", "unreadable", "garbage", "badfield"}

C19_WrittenBeforeClose ==
    /\ (closed /\ (deferWrite \/ outcome \in {"empty", "items"}))
       => /\ writes = 1
          /\ stateFile \in {JsonFile(state), fileAtStart}
    /\ pc = "Done"
       => /\ closed
          /\ outcome \in {"empty", "items"} => writes = 1
    /\ (ppc \in {"do", "loop", "item", "ret"}) => writes = 0 /\ ~closed

\* main is Done after a poll that parsed a feed: the state file holds what
\* the poll wrote.
C19_Witness ==
    /\ pc = "Done"
    /\ outcome = "items"
    /\ writes = 1
    /\ stateFile = JsonFile(state)
    /\ stateFile # fileAtStart

====
